---- MODULE Spec2Model ----
(***************************************************************************)
(* The JobSpy driver scripts: job_scraper.py ("basic"),                    *)
(* job_scraper_exact_match.py ("exact") and job_scraper_dynamic.py         *)
(* ("dynamic").  Each script runs scrape_jobs (the collector) and then     *)
(* save_jobs_to_csv (the exporter) on the target path.                     *)
(*                                                                         *)
(* Text.  A Python str is a sequence of pieces.  Every character that a    *)
(* script inspects (',', '|', '~', '"', ' ', CR, LF and the letters whose  *)
(* case is folded) is a piece of its own; a literal of the source that     *)
(* holds none of the delimiter characters and has no blank at either end   *)
(* ("Job ID", "Not Provided", ...) is written as one piece.                *)
(* A write that fails part-way may cut a piece: the file then ends with    *)
(* the leading characters of that piece.                                   *)
(* Optional values: None is <<>>, a present value v is <<v>>.              *)
(* A Python value stored in a record is tagged with its type (k).          *)
(***************************************************************************)
EXTENDS Integers, Sequences, FiniteSets, TLC

VARIABLES
    variant,        \* which script runs: "basic", "exact" or "dynamic"
    config,         \* search_terms, max_days_old, target_state, user_email
    pool,           \* which postings the job boards hold: "run" or "filter"
    quota,          \* postings the job boards may still return in this run
    pc,             \* position of the script
    ti,             \* index of the current search term (outer loop)
    si,             \* index of the current source (inner loop)
    job_response,   \* postings of the current response not yet looked at
    all_jobs,       \* the accumulating record list; job_data once returned
    file,           \* the target path: <<>> absent, <<content>> present
    dir_exists,     \* whether the directory of the target path exists
    error,          \* the exception that ended the run, "" if none
    fetched,        \* history: every response, in request order
    last,           \* history: the filters' verdicts on the last posting
    prior,          \* history: the target path when the script started
    first_out,      \* history: the target path after the first export
    calls,          \* history: completed calls of save_jobs_to_csv
    writes          \* history: completed writes of the export artifact

vars == << variant, config, pool, quota, pc, ti, si, job_response, all_jobs,
           file, dir_exists, error, fetched, last, prior, first_out, calls,
           writes >>

-----------------------------------------------------------------------------
(* Bounds of the model. *)

\* Postings the job boards return in one run of the collector.
MaxFetched == 2
\* Postings in one response.
MaxPerResponse == 2
\* Records in a sequence handed directly to save_jobs_to_csv.
MaxExportJobs == 2
\* Calls of save_jobs_to_csv on the same sequence and path.
MaxCalls == 2
\* Characters a write that fails part-way puts on disk before it fails.
PartialChars == 10

-----------------------------------------------------------------------------
(* Python str operations. *)

None == <<>>
Some(v) == <<v>>

\* The letters whose case the scripts fold, lower and upper, index-aligned.
LowerAlpha == <<"a", "c", "m", "n", "r", "y">>
UpperAlpha == <<"A", "C", "M", "N", "R", "Y">>

\* str.lower / str.upper on one character.
LowerChar(c) ==
    IF \E i \in 1..Len(UpperAlpha) : UpperAlpha[i] = c
    THEN LowerAlpha[CHOOSE i \in 1..Len(UpperAlpha) : UpperAlpha[i] = c]
    ELSE c
UpperChar(c) ==
    IF \E i \in 1..Len(LowerAlpha) : LowerAlpha[i] = c
    THEN UpperAlpha[CHOOSE i \in 1..Len(LowerAlpha) : LowerAlpha[i] = c]
    ELSE c

Lower(s) == [i \in 1..Len(s) |-> LowerChar(s[i])]
Upper(s) == [i \in 1..Len(s) |-> UpperChar(s[i])]

\* The characters str.strip() removes.
Whitespace == {" ", "\r", "\n"}

\* str.strip(): drop leading and trailing whitespace.
RECURSIVE LStrip(_)
LStrip(s) == IF s # <<>> /\ Head(s) \in Whitespace THEN LStrip(Tail(s)) ELSE s
RECURSIVE RStrip(_)
RStrip(s) ==
    IF s # <<>> /\ s[Len(s)] \in Whitespace
    THEN RStrip(SubSeq(s, 1, Len(s) - 1))
    ELSE s
Strip(s) == RStrip(LStrip(s))

\* sub in s
Contains(s, sub) ==
    \E i \in 1..(Len(s) - Len(sub) + 1) : SubSeq(s, i, i + Len(sub) - 1) = sub

\* Position of the first occurrence of sep in s, 0 if there is none.
Find(s, sep) ==
    IF \E i \in 1..(Len(s) - Len(sep) + 1) : SubSeq(s, i, i + Len(sep) - 1) = sep
    THEN CHOOSE i \in 1..(Len(s) - Len(sep) + 1) :
            /\ SubSeq(s, i, i + Len(sep) - 1) = sep
            /\ \A j \in 1..(i - 1) : SubSeq(s, j, j + Len(sep) - 1) # sep
    ELSE 0

\* s.replace(c, "") for a one-character c.
RemoveChar(s, c) == SelectSeq(s, LAMBDA x : x # c)

\* s.split(sep): left to right, occurrences not overlapping.
RECURSIVE Split(_, _)
Split(s, sep) ==
    LET i == Find(s, sep) IN
    IF i = 0 THEN << s >>
    ELSE << SubSeq(s, 1, i - 1) >> \o Split(SubSeq(s, i + Len(sep), Len(s)), sep)

\* sep.join(parts)
RECURSIVE Join(_, _)
Join(parts, sep) ==
    IF parts = <<>> THEN <<>>
    ELSE IF Len(parts) = 1 THEN parts[1]
    ELSE parts[1] \o sep \o Join(Tail(parts), sep)

\* Python values held in a record, tagged with their type.
Str(s) == [k |-> "str", s |-> s]
Bool(b) == [k |-> "bool", b |-> b]
NoneVal == [k |-> "none"]

\* str(value)
PyStr(v) ==
    CASE v.k = "str" -> v.s
      [] v.k = "bool" -> IF v.b THEN <<"True">> ELSE <<"False">>
      [] v.k = "none" -> <<"None">>

-----------------------------------------------------------------------------
(* Configuration and the external scraper's data. *)

\* max_days_old of the scripts.
MAX_DAYS_OLD == 2
\* description[:500] of the basic script.
DESCRIPTION_LIMIT == 500
\* datetime.date.today(), as the day of the month; every date of the model
\* lies in the same month, so that (today - d).days is Today - d.
Today == 20

\* sources / SOURCES: a dict, iterated in insertion order.
Sources(v) ==
    IF v = "dynamic" THEN <<"google", "linkedin", "indeed">>
    ELSE <<"google", "linkedin", "indeed", "zip_recruiter">>

HasKeywordFilter(v) == v \in {"exact", "dynamic"}

\* target_state "NY"
NY == <<"N", "Y">>

\* A JobPost of the external library, with the fields the scripts read.
Posting(title, date, loc, remote, desc) ==
    [ id |-> <<"id-1">>, title |-> title, company_name |-> Some(<<"Acme">>),
      company_industry |-> None, job_level |-> Some(<<>>),
      job_type |-> <<"FULL_TIME">>, is_remote |-> remote,
      compensation |-> None, date_posted |-> date, location |-> loc,
      job_url |-> <<"https://x/1">>, description |-> desc ]

\* A Location of the external library.
Loc(state) == Some([city |-> Some(<<" ", "a">>), state |-> state,
                    country |-> Some(<<"USA">>)])

TitleMatch == <<"C", "r", "M", " ", "a">>      \* contains "crm", case folded
TitleOther == <<"m", "c", "r">>                \* contains no search term
TitleSecond == <<"a", " ", "N", "y">>          \* contains "ny" only

StateNY == Some(<<" ", "n", "y", " ">>)
StateCA == Some(<<"C", "A">>)

\* The postings of a full run: one per case of the filter chain.
RunPool ==
    { Posting(TitleMatch, Some(Today), Loc(StateNY), FALSE, Some(<<"a", ",", "b">>)),
      Posting(TitleOther, Some(Today), Loc(StateNY), TRUE, None),
      Posting(TitleSecond, Some(Today - MAX_DAYS_OLD), Loc(StateCA), TRUE, None),
      Posting(TitleMatch, None, Loc(StateNY), TRUE, None),
      Posting(TitleMatch, Some(Today - 5), Loc(StateNY), FALSE, None),
      Posting(TitleMatch, Some(Today), Loc(StateCA), FALSE, None),
      Posting(TitleMatch, Some(Today), None, TRUE, None),
      Posting(TitleMatch, Some(Today), Loc(None), TRUE, Some(<<",">>)) }

\* The postings of the filter runs: every combination of the filtered fields.
FilterPool ==
    { Posting(t, d, l, r, None) :
        t \in {TitleMatch, TitleOther, TitleSecond},
        d \in {None, Some(Today + 1), Some(Today), Some(Today - MAX_DAYS_OLD),
               Some(Today - MAX_DAYS_OLD - 1), Some(Today - 5)},
        l \in {None, Loc(None), Loc(Some(<<>>)), Loc(StateNY), Loc(StateCA),
               Loc(Some(<<"N", "Y", "C">>))},
        r \in BOOLEAN }

\* The postings the job boards hold.
PoolOf(name) == IF name = "run" THEN RunPool ELSE FilterPool

\* The configurations a run is started with.
TermsOne == << <<"c", "r", "m">> >>
TermsTwo == << <<"C", "R", "M">>, <<"n", "y">> >>

Config(terms, days, email) ==
    [search_terms |-> terms, max_days_old |-> days, target_state |-> NY,
     user_email |-> email]

\* Sequences over S of length at most n.
SeqUpTo(S, n) == UNION { [1..m -> S] : m \in 0..n }

Min(a, b) == IF a < b THEN a ELSE b

-----------------------------------------------------------------------------
(* scrape_jobs: normalization, the filter chain, the record. *)

\* Python truthiness of an optional str.
Truthy(opt) == opt # None /\ opt[1] # <<>>

\* The guarded normalization of the dynamic script; the other two read
\* job.location.city without the guard.
SafeLocation(v) == v = "dynamic"

\* job.location is None and the script dereferences it: AttributeError.
LocationRaises(v, job) == ~SafeLocation(v) /\ job.location = None

location_city(job) ==
    IF job.location # None /\ Truthy(job.location[1].city)
    THEN Strip(job.location[1].city[1]) ELSE <<"Unknown">>

location_state(job) ==
    IF job.location # None /\ Truthy(job.location[1].state)
    THEN Upper(Strip(job.location[1].state[1])) ELSE <<"Unknown">>

location_country(job) ==
    IF job.location # None /\ Truthy(job.location[1].country)
    THEN job.location[1].country[1] ELSE <<"Unknown">>

\* any(term.lower() in job.title.lower() for term in search_terms)
KeywordMatchCaseSensitive(job, terms) ==
    \E i \in 1..Len(terms) : Contains(job.title, Lower(terms[i]))
KeywordMatch(job, terms) ==
    \E i \in 1..Len(terms) : Contains(Lower(job.title), Lower(terms[i]))

\* job.date_posted and (today - job.date_posted).days <= max_days_old
RecentStrict(job, days) ==
    job.date_posted # None /\ Today - job.date_posted[1] < days
Recent(job, days) ==
    job.date_posted # None /\ Today - job.date_posted[1] <= days

\* location_state == target_state or job.is_remote
LocationOkStateOnly(job, target) == location_state(job) = target
LocationOk(job, target) ==
    location_state(job) = target \/ job.is_remote

\* date.strftime("%Y-%m-%d") within the month of the model.
Digits == <<"0", "1", "2", "3", "4", "5", "6", "7", "8", "9">>
Strftime(d) == <<"2024-01-", Digits[(d \div 10) + 1], Digits[(d % 10) + 1]>>

OrElse(opt, dflt) == IF Truthy(opt) THEN opt[1] ELSE dflt

\* The "Job Description" of a record.
Description(v, job) ==
    IF ~Truthy(job.description) THEN <<"No description available">>
    ELSE IF v = "basic"
         THEN SubSeq(job.description[1], 1,
                     Min(DESCRIPTION_LIMIT, Len(job.description[1])))
         ELSE RemoveChar(job.description[1], ",")

\* The dict appended to all_jobs for an accepted posting.
JobRecord(v, job, source_name, email) ==
    LET base ==
          "Job ID" :> Str(job.id)
       @@ "Job Title (Primary)" :> Str(job.title)
       @@ "Company Name" :> Str(OrElse(job.company_name, <<"Unknown">>))
       @@ "Industry" :> Str(OrElse(job.company_industry, <<"Not Provided">>))
       @@ "Experience Level" :> Str(OrElse(job.job_level, <<"Not Provided">>))
       @@ "Job Type" :> Str(IF job.job_type # <<>> THEN <<job.job_type[1]>>
                            ELSE <<"Not Provided">>)
       @@ "Is Remote" :> Bool(job.is_remote)
       @@ "Currency" :> (IF job.compensation # None
                         THEN job.compensation[1].currency ELSE Str(<<>>))
       @@ "Salary Min" :> (IF job.compensation # None
                           THEN job.compensation[1].min_amount ELSE Str(<<>>))
       @@ "Salary Max" :> (IF job.compensation # None
                           THEN job.compensation[1].max_amount ELSE Str(<<>>))
       @@ "Date Posted" :> Str(IF job.date_posted # None
                               THEN Strftime(job.date_posted[1])
                               ELSE <<"Not Provided">>)
       @@ "Location City" :> Str(location_city(job))
       @@ "Location State" :> Str(location_state(job))
       @@ "Location Country" :> Str(location_country(job))
       @@ "Job URL" :> Str(job.job_url)
       @@ "Job Description" :> Str(Description(v, job))
       @@ "Job Source" :> Str(<<source_name>>)
    IN IF v = "dynamic" /\ email # <<>>
       THEN base @@ "User Email" :> Str(email)
       ELSE base

\* all_jobs.append(record)
AppendJobKeepFirst(jobs, rec) ==
    IF \E i \in 1..Len(jobs) : jobs[i] = rec THEN jobs ELSE Append(jobs, rec)
AppendJob(jobs, rec) == Append(jobs, rec)

\* The posting passes every filter of the variant.
Accepted(v, job, cfg) ==
    /\ HasKeywordFilter(v) => KeywordMatch(job, cfg.search_terms)
    /\ Recent(job, cfg.max_days_old)
    /\ LocationOk(job, cfg.target_state)

-----------------------------------------------------------------------------
(* save_jobs_to_csv: the two export schemes. *)

\* fieldnames of save_jobs_to_csv
FIELDNAMES ==
    << "Job ID", "Job Title (Primary)", "Company Name", "Industry",
       "Experience Level", "Job Type", "Is Remote", "Currency",
       "Salary Min", "Salary Max", "Date Posted", "Location City",
       "Location State", "Location Country", "Job URL", "Job Description",
       "Job Source" >>

Range(f) == { f[i] : i \in DOMAIN f }

\* job.get(field, dflt)
Get(job, field, dflt) == IF field \in DOMAIN job THEN job[field] ELSE dflt

\* The header of the dynamic script: "User Email" first when any record has it.
Fieldnames(v, jobs) ==
    IF v = "dynamic" /\ \E i \in 1..Len(jobs) : "User Email" \in DOMAIN jobs[i]
    THEN <<"User Email">> \o FIELDNAMES
    ELSE FIELDNAMES

FIELD_DELIMITER == <<"|", "~", "|">>
RECORD_DELIMITER == <<",">>

\* One field of the flattened export: str, strip, placeholder, commas removed.
FieldValue(job, field) ==
    LET value == Strip(PyStr(Get(job, field, Str(<<>>)))) IN
    RemoveChar(IF value = <<>> THEN <<"Not Provided">> ELSE value, ",")

\* The row list of one record, before it is joined.
Row(job, fieldnames) ==
    [i \in 1..Len(fieldnames) |-> FieldValue(job, fieldnames[i])]

\* The text the dynamic script writes.
FlatOutput(jobs) ==
    LET fieldnames == Fieldnames("dynamic", jobs)
        header_record == Join([i \in 1..Len(fieldnames) |-> <<fieldnames[i]>>],
                              FIELD_DELIMITER)
        records == <<header_record>> \o
                   [i \in 1..Len(jobs) |->
                       Join(Row(jobs[i], fieldnames), FIELD_DELIMITER)]
    IN Join(records, RECORD_DELIMITER)

\* csv.writer, QUOTE_MINIMAL: None is written as "", a field holding the
\* delimiter, the quote character or a line-terminator character is quoted.
CsvSpecial == {",", "\"", "\r", "\n"}
RECURSIVE DoubleQuotes(_)
DoubleQuotes(s) ==
    IF s = <<>> THEN <<>>
    ELSE (IF Head(s) = "\"" THEN <<"\"", "\"">> ELSE <<Head(s)>>)
         \o DoubleQuotes(Tail(s))
CsvField(v) ==
    LET s == IF v.k = "none" THEN <<>> ELSE PyStr(v) IN
    IF Range(s) \cap CsvSpecial # {}
    THEN <<"\"">> \o DoubleQuotes(s) \o <<"\"">>
    ELSE s
CsvRow(values) ==
    Join([i \in 1..Len(values) |-> CsvField(values[i])], <<",">>) \o <<"\r", "\n">>

\* DictWriter: a key outside fieldnames raises ValueError.
HasExtraKey(job) == DOMAIN job \ Range(FIELDNAMES) # {}

\* The rows DictWriter.writerows writes before it raises or ends.
RECURSIVE CsvRows(_)
CsvRows(jobs) ==
    IF jobs = <<>> \/ HasExtraKey(Head(jobs)) THEN <<>>
    ELSE CsvRow([i \in 1..Len(FIELDNAMES) |->
                    Get(Head(jobs), FIELDNAMES[i], Str(<<>>))])
         \o CsvRows(Tail(jobs))

\* The text the basic and exact scripts write.
CsvOutput(jobs) ==
    CsvRow([i \in 1..Len(FIELDNAMES) |-> Str(<<FIELDNAMES[i]>>)]) \o CsvRows(jobs)

\* The text a complete export of jobs holds.
Output(v, jobs) == IF v = "dynamic" THEN FlatOutput(jobs) ELSE CsvOutput(jobs)

\* writerows raises part-way.
WriteRaises(v, jobs) ==
    v # "dynamic" /\ \E i \in 1..Len(jobs) : HasExtraKey(jobs[i])

\* Whether the script removes an existing file before it writes.
RemovesFirst(v) == v \in {"exact", "dynamic"}

\* open(filename, "w") on the present content: created or truncated.
OpenAppend(content) == IF content = None THEN Some(<<>>) ELSE content
OpenWrite(content) == Some(<<>>)

\* open(filename, "w") in a directory that does not exist: FileNotFoundError.
OpenRaises(dir) == ~dir

\* file.write(text) at the end of the open file.
WriteText(content, text) == Some(content[1] \o text)

\* len(text), in characters (the halves are summed).
RECURSIVE Chars(_)
Chars(text) ==
    IF text = <<>> THEN 0
    ELSE IF Len(text) = 1 THEN Len(text[1])
    ELSE LET h == Len(text) \div 2
         IN Chars(SubSeq(text, 1, h)) + Chars(SubSeq(text, h + 1, Len(text)))

\* text[:n]: the first n characters; the cut may fall inside a piece.
RECURSIVE Prefix(_, _)
Prefix(text, n) ==
    IF n = 0 \/ text = <<>> THEN <<>>
    ELSE IF Len(text) = 1
         THEN (IF Len(text[1]) <= n THEN text ELSE <<SubSeq(text[1], 1, n)>>)
    ELSE LET h == Len(text) \div 2
             left == SubSeq(text, 1, h)
             c == Chars(left)
         IN IF n <= c THEN Prefix(left, n)
            ELSE left \o Prefix(SubSeq(text, h + 1, Len(text)), n - c)

\* The numbers of characters that can be on disk when the write of text
\* fails in the operating system: the text is buffered and flushed when the
\* with-block closes the file, and the characters that fit are written.
\* The cases taken: nothing, PartialChars characters, all but the last.
PartialLengths(text) ==
    LET longest == Chars(text) - 1 IN
    IF text = <<>> THEN {0} ELSE {0, Min(PartialChars, longest), longest}

\* "if not jobs: return" of save_jobs_to_csv.
NothingToExportNever(jobs) == FALSE
NothingToExport(jobs) == jobs = <<>>

-----------------------------------------------------------------------------
(* The state machine. *)

Variants == {"basic", "exact", "dynamic"}

NoVerdict ==
    [job |-> None, source |-> "", keyword |-> "none", recency |-> "none",
     location |-> "none", appended |-> FALSE]

\* The configurations of a full run.
RunConfigs(v) ==
    IF v = "dynamic"
    THEN {Config(TermsOne, MAX_DAYS_OLD, <<>>), Config(TermsTwo, MAX_DAYS_OLD, <<"u@x">>)}
    ELSE {Config(TermsOne, MAX_DAYS_OLD, <<>>)}

\* The target path before the run.
Priors == {None, Some(<<"old">>)}

\* State after the module-level code: configuration read, nothing scraped.
InitCommon ==
    /\ variant \in Variants
    /\ pc = "loop"
    /\ ti = 1
    /\ si = 1
    /\ job_response = <<>>
    /\ all_jobs = <<>>
    /\ prior \in Priors
    /\ file = prior
    /\ dir_exists = TRUE    \* "jobspy_output.csv": the working directory
    /\ error = ""
    /\ fetched = <<>>
    /\ last = NoVerdict
    /\ first_out = None
    /\ calls = 0
    /\ writes = 0

Init ==
    /\ InitCommon
    /\ config \in RunConfigs(variant)
    /\ pool = "run"
    /\ quota = MaxFetched

\* Runs in which the job boards return a single posting, of any shape.
InitFilter ==
    /\ InitCommon
    /\ config \in {Config(TermsOne, d, <<>>) : d \in {0, MAX_DAYS_OLD}}
    /\ pool = "filter"
    /\ quota = 1

Collecting == pc \in {"loop", "jobs"}

\* The loop indices after the pair (ti, si).
NextTi == IF si < Len(Sources(variant)) THEN ti ELSE ti + 1
NextSi == IF si < Len(Sources(variant)) THEN si + 1 ELSE 1

\* scraper.scrape(search_criteria) returns job_response.
Scrape ==
    /\ pc = "loop"
    /\ ti <= Len(config.search_terms)
    /\ \E jobs \in SeqUpTo(PoolOf(pool), Min(MaxPerResponse, quota)) :
        /\ fetched' = Append(fetched, [ti |-> ti, si |-> si, jobs |-> jobs])
        /\ quota' = quota - Len(jobs)
        /\ job_response' = jobs
        /\ IF jobs = <<>>
           THEN pc' = "loop" /\ ti' = NextTi /\ si' = NextSi
           ELSE pc' = "jobs" /\ UNCHANGED <<ti, si>>
    /\ UNCHANGED <<variant, config, dir_exists, pool, all_jobs, file, error, last, prior,
                   first_out, calls, writes>>

\* scraper.scrape(search_criteria) raises; no handler encloses the call, so the
\* exception leaves scrape_jobs and ends the script.
ScrapeRaises ==
    /\ pc = "loop"
    /\ ti <= Len(config.search_terms)
    /\ pc' = "aborted"
    /\ error' = "ScrapeError"
    /\ UNCHANGED <<variant, config, dir_exists, pool, quota, ti, si, job_response, all_jobs,
                   file, fetched, last, prior, first_out, calls, writes>>

\* One pass of "for job in job_response.jobs".
ProcessJob ==
    /\ pc = "jobs"
    /\ job_response # <<>>
    /\ LET job == Head(job_response)
           source_name == Sources(variant)[si]
           kw == IF ~HasKeywordFilter(variant) THEN "off"
                 ELSE IF KeywordMatch(job, config.search_terms) THEN "pass"
                 ELSE "reject"
           rc == IF kw = "reject" THEN "skip"
                 ELSE IF Recent(job, config.max_days_old) THEN "pass"
                 ELSE "reject"
           lc == IF rc # "pass" THEN "skip"
                 ELSE IF LocationOk(job, config.target_state) THEN "pass"
                 ELSE "reject"
       IN IF LocationRaises(variant, job)
          THEN /\ pc' = "aborted"
               /\ error' = "AttributeError"
               /\ last' = [NoVerdict EXCEPT !.job = Some(job), !.source = source_name]
               /\ UNCHANGED <<ti, si, job_response, all_jobs>>
          ELSE /\ all_jobs' = IF lc = "pass"
                              THEN AppendJob(all_jobs,
                                      JobRecord(variant, job, source_name,
                                                config.user_email))
                              ELSE all_jobs
               /\ last' = [job |-> Some(job), source |-> source_name,
                           keyword |-> kw, recency |-> rc, location |-> lc,
                           appended |-> all_jobs' # all_jobs]
               /\ job_response' = Tail(job_response)
               /\ IF Tail(job_response) = <<>>
                  THEN pc' = "loop" /\ ti' = NextTi /\ si' = NextSi
                  ELSE UNCHANGED <<pc, ti, si>>
               /\ UNCHANGED error
    /\ UNCHANGED <<variant, config, dir_exists, pool, quota, file, fetched, prior,
                   first_out, calls, writes>>

\* "return all_jobs", and the script calls save_jobs_to_csv(job_data).
Return ==
    /\ pc = "loop"
    /\ ti > Len(config.search_terms)
    /\ pc' = "save"
    /\ UNCHANGED <<variant, config, dir_exists, pool, quota, ti, si, job_response, all_jobs,
                   file, error, fetched, last, prior, first_out, calls, writes>>

\* save_jobs_to_csv returns.
Returned ==
    /\ pc' = "done"
    /\ calls' = calls + 1
    /\ first_out' = IF calls = 0 THEN file' ELSE first_out

\* "if not jobs: print(...); return"
SaveEnter ==
    /\ pc = "save"
    /\ IF NothingToExport(all_jobs)
       THEN UNCHANGED file /\ Returned
       ELSE /\ pc' = IF RemovesFirst(variant) THEN "save_remove" ELSE "save_open"
            /\ UNCHANGED <<file, calls, first_out>>
    /\ UNCHANGED <<variant, config, dir_exists, pool, quota, ti, si, job_response, all_jobs,
                   error, fetched, last, prior, writes>>

\* "if os.path.exists(filename): os.remove(filename)"
SaveRemove ==
    /\ pc = "save_remove"
    /\ file' = None
    /\ pc' = "save_open"
    /\ UNCHANGED <<variant, config, dir_exists, pool, quota, ti, si, job_response, all_jobs,
                   error, fetched, last, prior, first_out, calls, writes>>

\* open(filename, "w"); no script creates the directory of filename, and
\* open raises FileNotFoundError when it does not exist.
SaveOpen ==
    /\ pc = "save_open"
    /\ IF OpenRaises(dir_exists)
       THEN pc' = "aborted" /\ error' = "FileNotFoundError" /\ UNCHANGED file
       ELSE pc' = "save_write" /\ file' = OpenWrite(file) /\ UNCHANGED error
    /\ UNCHANGED <<variant, config, dir_exists, pool, quota, ti, si, job_response, all_jobs,
                   fetched, last, prior, first_out, calls, writes>>

\* file.write(output) / writeheader and writerows, and the file is closed.
SaveWrite ==
    /\ pc = "save_write"
    /\ file' = WriteText(file, Output(variant, all_jobs))
    /\ IF WriteRaises(variant, all_jobs)
       THEN /\ pc' = "aborted"
            /\ error' = "ValueError"
            /\ UNCHANGED <<calls, first_out, writes>>
       ELSE /\ Returned
            /\ writes' = writes + 1
            /\ UNCHANGED error
    /\ UNCHANGED <<variant, config, dir_exists, pool, quota, ti, si, job_response, all_jobs,
                   fetched, last, prior>>

\* os.remove, open or the write fails in the operating system (OSError and
\* its subclasses).  os.remove is called, and can fail, only when the file
\* exists; a failed os.remove or open leaves the path as it was; a failed
\* write leaves the characters that reached the disk, a proper prefix of the
\* text.
SaveOSError ==
    /\ \/ /\ pc = "save_remove"
          /\ file # None
          /\ UNCHANGED file
       \/ /\ pc = "save_open"
          /\ UNCHANGED file
       \/ /\ pc = "save_write"
          /\ LET text == Output(variant, all_jobs)
             IN \E n \in PartialLengths(text) :
                   file' = WriteText(file, Prefix(text, n))
    /\ pc' = "aborted"
    /\ error' = "OSError"
    /\ UNCHANGED <<variant, config, dir_exists, pool, quota, ti, si, job_response, all_jobs,
                   fetched, last, prior, first_out, calls, writes>>

\* save_jobs_to_csv is called again with the same sequence and path.
SaveAgain ==
    /\ pc = "done"
    /\ calls < MaxCalls
    /\ pc' = "save"
    /\ UNCHANGED <<variant, config, dir_exists, pool, quota, ti, si, job_response, all_jobs,
                   file, error, fetched, last, prior, first_out, calls, writes>>

Next ==
    \/ Scrape
    \/ ScrapeRaises
    \/ ProcessJob
    \/ Return
    \/ SaveEnter
    \/ SaveRemove
    \/ SaveOpen
    \/ SaveWrite
    \/ SaveOSError

\* A run of one script.
Spec == Init /\ [][Next]_vars

\* Runs whose single posting ranges over every combination of field values.
SpecFilter == InitFilter /\ [][Next]_vars

-----------------------------------------------------------------------------
(* save_jobs_to_csv called directly on a record sequence. *)

\* The field values the exporter is handed.
ExportValues ==
    { Str(<<"a">>), Str(<<>>), Str(<<" ">>), Str(<<",">>),
      Str(<<" ", "a", ",", "b">>), Str(<<"a", "|", "~", "|", "b">>),
      Str(<<"\"">>), NoneVal }

\* A record as scrape_jobs builds it, with one field set to v; with_email adds
\* the "User Email" key and drops "Industry" (a key the record lacks).
ExportRecord(v, with_email) ==
    LET rec == [JobRecord("dynamic",
                          Posting(TitleMatch, Some(Today), Loc(StateNY), FALSE, None),
                          "google", <<>>) EXCEPT !["Job URL"] = v]
    IN IF with_email
       THEN [f \in (DOMAIN rec \ {"Industry"}) \cup {"User Email"} |->
                IF f = "User Email" THEN Str(<<"u@x">>) ELSE rec[f]]
       ELSE rec

ExportRecords == { ExportRecord(v, e) : v \in ExportValues, e \in BOOLEAN }

InitExport ==
    /\ variant \in Variants
    /\ config = Config(TermsOne, MAX_DAYS_OLD, <<>>)
    /\ pool = "run"
    /\ quota = 0
    /\ pc = "save"
    /\ ti = 1
    /\ si = 1
    /\ job_response = <<>>
    /\ all_jobs \in SeqUpTo(ExportRecords, MaxExportJobs)
    /\ dir_exists \in BOOLEAN  \* filename may name a directory not yet made
    /\ prior \in (IF dir_exists THEN Priors ELSE {None})
    /\ file = prior
    /\ error = ""
    /\ fetched = <<>>
    /\ last = NoVerdict
    /\ first_out = None
    /\ calls = 0
    /\ writes = 0

NextExport ==
    \/ SaveEnter
    \/ SaveRemove
    \/ SaveOpen
    \/ SaveWrite
    \/ SaveOSError
    \/ SaveAgain

SpecExport == InitExport /\ [][NextExport]_vars

-----------------------------------------------------------------------------
(* The claims. *)

\* scrape_jobs has returned (the script is in, or past, save_jobs_to_csv).
HasReturned == ~Collecting /\ error \notin {"ScrapeError", "AttributeError"}

\* C1: a failure raised by scrape() for one (term, source) pair does not end
\* the run: it is caught and iteration goes on with the next pair.
C1_ScrapeFailureIsolated == ~(pc = "aborted" /\ error = "ScrapeError")

\* C2: the recency filter accepts a posting exactly when its posting date is
\* present and (today - date).days <= max_days_old, and only postings it
\* accepted are appended; undated postings and a posting 5 days old with
\* max_days_old = 2 are rejected.
C2_RecencyFilter ==
    last.recency \in {"pass", "reject"} =>
        LET job == last.job[1] IN
        /\ (last.recency = "pass") <=>
              (/\ job.date_posted # <<>>
               /\ Today - job.date_posted[1] <= config.max_days_old)
        /\ last.appended => last.recency = "pass"

\* C2 witness: a posting dated 5 days ago was rejected with max_days_old = 2.
C2_Witness ==
    /\ last.recency = "reject"
    /\ last.job[1].date_posted = <<Today - 5>>
    /\ config.max_days_old = 2

\* C3: a posting that passed the other filters is accepted exactly when it
\* is remote or its trimmed, upper-cased state equals the target region; a
\* remote posting is accepted whatever its state, an absent state included.
C3_LocationFilter ==
    last.location \in {"pass", "reject"} =>
        LET job == last.job[1]
            state == job.location[1].state
            in_target == /\ job.location # <<>>
                         /\ state # <<>>
                         /\ state[1] # <<>>
                         /\ Upper(Strip(state[1])) = config.target_state
        IN /\ (last.location = "pass") <=> (job.is_remote \/ in_target)
           /\ (last.location = "pass") <=> last.appended

\* C3 witness: a remote posting with no state was accepted.
C3_Witness ==
    /\ last.location = "pass"
    /\ last.appended
    /\ last.job[1].is_remote
    /\ last.job[1].location # <<>>
    /\ last.job[1].location[1].state = <<>>

\* The title holds one of the search terms, case folded.
TitleHasTerm(title) ==
    \E i \in 1..Len(config.search_terms) :
        \E k \in 1..Len(title) :
            /\ k + Len(config.search_terms[i]) - 1 <= Len(title)
            /\ \A j \in 1..Len(config.search_terms[i]) :
                  LowerChar(title[k + j - 1]) = LowerChar(config.search_terms[i][j])

\* C4: in the scripts with the keyword filter, a posting goes on to the
\* recency and location filters exactly when its title holds a search term
\* as a case-insensitive substring, and no record of the result has a title
\* holding none.
C4_KeywordFilter ==
    variant \in {"exact", "dynamic"} =>
        /\ last.keyword \in {"pass", "reject"} =>
              /\ (last.keyword = "pass") <=> TitleHasTerm(last.job[1].title)
              /\ (last.keyword = "reject") =>
                    (/\ last.recency = "skip"
                     /\ last.location = "skip"
                     /\ ~last.appended)
        /\ \A i \in 1..Len(all_jobs) :
              TitleHasTerm(all_jobs[i]["Job Title (Primary)"].s)

\* C4 witness: a recent remote posting in the target state was excluded for
\* its title.
C4_Witness ==
    /\ variant \in {"exact", "dynamic"}
    /\ last.keyword = "reject"
    /\ last.job[1].is_remote
    /\ last.job[1].date_posted = <<Today>>
    /\ last.job[1].location[1].state = StateNY

\* The records of the accepted postings of responses k..Len(fetched).
RECURSIVE ExpectedFrom(_)
ExpectedFrom(k) ==
    IF k > Len(fetched) THEN <<>>
    ELSE LET resp == fetched[k]
             kept == SelectSeq(resp.jobs, LAMBDA j : Accepted(variant, j, config))
         IN [i \in 1..Len(kept) |->
                JobRecord(variant, kept[i], Sources(variant)[resp.si],
                          config.user_email)]
            \o ExpectedFrom(k + 1)

\* C5: the returned sequence is the concatenation, terms outermost and
\* sources in declared order, of each pair's accepted postings in response
\* order; every pair is requested exactly once.
C5_ResultOrder ==
    HasReturned =>
        LET n == Len(Sources(variant)) IN
        /\ Len(fetched) = Len(config.search_terms) * n
        /\ \A k \in 1..Len(fetched) :
              /\ fetched[k].ti = ((k - 1) \div n) + 1
              /\ fetched[k].si = ((k - 1) % n) + 1
        /\ all_jobs = ExpectedFrom(1)

\* C5 witness: two equal records, accepted from two different pairs, are
\* both in the result.
C5_Witness ==
    /\ HasReturned
    /\ Len(all_jobs) = 2
    /\ all_jobs[1] = all_jobs[2]
    /\ \E a, b \in 1..Len(fetched) :
          a < b /\ Len(fetched[a].jobs) = 1 /\ Len(fetched[b].jobs) = 1

\* The flattened export has been written by a call that returned.
FlatExported ==
    variant = "dynamic" /\ pc = "done" /\ all_jobs # <<>> /\ file # <<>>

\* The records of the written text and the fields of one record.
EmittedRecords == Split(file[1], RECORD_DELIMITER)
EmittedFields(r) == Split(EmittedRecords[r], FIELD_DELIMITER)

\* C6: every emitted record, the header included, has len(fieldnames)
\* fields, and field i of a body record is the value of header field i.
C6_FieldCount ==
    FlatExported =>
        LET fieldnames == Fieldnames(variant, all_jobs) IN
        /\ Len(EmittedRecords) = Len(all_jobs) + 1
        /\ \A r \in 1..Len(EmittedRecords) :
              Len(EmittedFields(r)) = Len(fieldnames)
        /\ \A i \in 1..Len(fieldnames) : EmittedFields(1)[i] = <<fieldnames[i]>>
        /\ \A r \in 1..Len(all_jobs) : \A i \in 1..Len(fieldnames) :
              EmittedFields(r + 1)[i] = FieldValue(all_jobs[r], fieldnames[i])

\* C7: no emitted field value holds ',' and none is the empty string.
C7_NoCommaNoEmpty ==
    FlatExported =>
        /\ \A r \in 1..Len(EmittedRecords) : \A i \in 1..Len(EmittedFields(r)) :
              EmittedFields(r)[i] # <<>>
        /\ \A r \in 1..Len(all_jobs) :
              \A i \in 1..Len(Fieldnames(variant, all_jobs)) :
                 "," \notin Range(FieldValue(all_jobs[r],
                                             Fieldnames(variant, all_jobs)[i]))

\* C8: with an empty record sequence save_jobs_to_csv writes nothing and
\* returns normally; the target path is as it was.
C8_EmptyExport ==
    all_jobs = <<>> /\ ~Collecting =>
        /\ file = prior
        /\ error = ""
        /\ writes = 0
        /\ pc \in {"save", "done"}

\* C8 witness: the call returned on an empty sequence with a file at the path.
C8_Witness == all_jobs = <<>> /\ pc = "done" /\ calls >= 1 /\ prior # <<>>

\* C9: after save_jobs_to_csv on a non-empty sequence the file holds the
\* export of that sequence and nothing of the prior content; a second call
\* on the same sequence leaves the bytes of the first.
C9_FullReplace ==
    pc = "done" /\ all_jobs # <<>> =>
        /\ file = <<Output(variant, all_jobs)>>
        /\ file = first_out

\* C9 witness: the second call returned, over a file that existed before.
C9_Witness == pc = "done" /\ all_jobs # <<>> /\ calls = 2 /\ prior # <<>>

\* C10: no file is touched during collection, the export is written at most
\* once, and in every state the target path holds either what it held
\* before the run or the complete export.
C10_NoPartialExport ==
    /\ Collecting => file = prior /\ writes = 0
    /\ writes <= 1
    /\ file = prior \/ file = <<Output(variant, all_jobs)>>

\* C11: with a non-empty sequence and a target path whose directory does
\* not exist, the directory is created before the file is written and the
\* export succeeds: the call does not end on a missing directory, and once
\* it has returned the directory and the file exist.
C11_DirectoryCreated ==
    all_jobs # <<>> =>
        /\ ~(pc = "aborted" /\ error = "FileNotFoundError")
        /\ pc = "done" => dir_exists /\ file # <<>>

====
